---- MODULE Spec2Model ----
(***************************************************************************)
(* Turn-taking orchestrator (backend/conversation.py ConversationManager)  *)
(* with its voice-activity detector (backend/vad.py) and interview timer   *)
(* (backend/utils.py).                                                     *)
(*                                                                         *)
(* Everything runs on one asyncio event loop: a handler runs without       *)
(* interruption up to an await that really suspends.  Background work      *)
(* created with asyncio.create_task sits in the loop's FIFO ready queue    *)
(* until the loop gets control; websocket.send_json may or may not         *)
(* suspend its caller.  Text is a sequence of one-character strings; audio *)
(* is a sequence of blocks of BlockBytes bytes each, a block being named   *)
(* by its content; time is in whole seconds.                               *)
(***************************************************************************)
EXTENDS Integers, Sequences, FiniteSets, TLC

\* ------------------------------------------------------------------ bounds
MaxTasks == 2       \* background executions created in one session
MaxTicks == 2       \* clock advances in one session
MaxConsec == 3      \* cap of the detector's consecutive-frame counters
MaxSpeechLen == 4   \* cap of the accumulator's length, in characters
MaxAppended == 6    \* blocks of audio appended to the buffer that is followed block by block
MaxFed == 10        \* frames classified between two resets of a detector driven alone

\* ------------------------------------------------- configuration constants
INTERVIEW_DURATION_MINUTES == 10
SILENCE_THRESHOLD_SECONDS == 1
SAMPLE_RATE == 16000
FRAME_DURATION_MS == 30
silence_padding_frames == 3
speech_padding_frames == 3
max_reconnect_attempts == 5

\* Optional[float] None of silence_start and start_time
None == -1

\* vad.py:25  int(sample_rate * frame_duration_ms / 1000) * 2
frame_size == ((SAMPLE_RATE * FRAME_DURATION_MS) \div 1000) * 2

\* utils.py:22
duration_seconds == INTERVIEW_DURATION_MINUTES * 60

\* ------------------------------------------------------------------ inputs
\* the bytes of one block of audio: half a frame
BlockBytes == frame_size \div 2

\* len() of a byte string
ByteLen(a) == Len(a) * BlockBytes

\* audio chunks the transport delivers: half a frame, and a frame and a half
Chunks == {<<0>>, <<0, 0, 0>>}

\* transcripts the recognition service delivers
Transcripts == {<< >>, <<" ", "a">>}

\* results of the frame classifier webrtcvad.Vad.is_speech
Classifications == {"speech", "silence", "raise"}

\* frames given to process_frame directly: a whole frame, half a frame, and a
\* frame and a half
Frames == {<<0, 0>>, <<0>>, <<0, 0, 0>>}

\* clock advances, in seconds
TickSteps == {SILENCE_THRESHOLD_SECONDS, duration_seconds}

\* texts of the language collaborator: its greeting, and what generate_response
\* returns
GreetingText == <<"g">>
ReplyText == <<"r">>

\* the session id of the connection
SessionId == "s1"

\* no payload
NoPayload == [type |-> "none"]

\* the websocket connections that ask for the session SessionId
Connections == {1, 2}

\* a connection that has not been opened yet
NoConnection == [at |-> "unopened", manager |-> FALSE, reconnect_attempts |-> 0]

\* VoiceSynthesizer.synthesize: the audio bytes of the speech for text
synthesize(text) == [speech |-> text]

\* utils.encode_audio_to_base64
encode_audio_to_base64(audio_bytes) == [b64 |-> audio_bytes]

\* ------------------------------------------------------------------- state
VARIABLES
    phase,                 \* where the endpoint of app.py is with the manager: "constructed",
                           \* "connecting", "backoff", "started", "failed" or "closed"
    reconnect_attempts,    \* the local of start_streaming while it runs, 0 otherwise
    backoff,               \* seconds of the asyncio.sleep start_streaming is in, 0 if none
    greeting,              \* what start_interview returned to the endpoint, NoPayload before
    active_conversations,  \* app.py's registry: the session ids it holds
    websocket,             \* self.websocket: "None" or "ws"
    interview_active,
    is_ai_speaking,
    response_in_progress,
    current_user_speech,
    conversation_history,
    audio_buffer,
    vad,                   \* the VoiceActivityDetector's fields
    start_time,            \* InterviewTimer.start_time
    now,                   \* time.time()
    ticks,                 \* clock advances so far
    connection,            \* SpeechRecognizer.connection: "None", "live" or "finished"
    refinished,            \* connection.finish() was called on a finished connection
    tasks,                 \* background executions, in creation order
    created,               \* background executions created so far
    llmCalls,              \* calls of ai_interviewer.generate_response so far
    sent,                  \* payloads sent on the websocket, per type
    callLog,               \* the calls of send_audio, process_frame and _end_interview the
                           \* step just taken made from process_audio_chunk, in order
    conns,                 \* the runs of interview_websocket, one per websocket connection
    fed,                   \* what the classifier made of the frames it classified since
                           \* the detector was constructed or last reset, in order
    appended,              \* the bytes appended to audio_buffer so far, in order
    slices                 \* the frames process_audio_chunk fed to the detector so far

\* the endpoint's part of the state
endpoint == <<reconnect_attempts, backoff, greeting, active_conversations>>

\* what is followed of several connections, of the detector on its own and of
\* the audio buffer; the session of one connection leaves it alone
aside == <<conns, fed, appended, slices>>

vars == <<phase, endpoint, aside, websocket, interview_active, is_ai_speaking, response_in_progress,
          current_user_speech, conversation_history, audio_buffer, vad, start_time,
          now, ticks, connection, refinished, tasks, created, llmCalls, sent, callLog>>

\* ------------------------------------------------------------ pure helpers
RECURSIVE LStrip(_)
LStrip(s) == IF s # << >> /\ Head(s) = " " THEN LStrip(Tail(s)) ELSE s

RECURSIVE RStrip(_)
RStrip(s) == IF s # << >> /\ s[Len(s)] = " " THEN RStrip(SubSeq(s, 1, Len(s) - 1)) ELSE s

\* str.strip()
Strip(s) == RStrip(LStrip(s))

RemoveAt(s, i) == SubSeq(s, 1, i - 1) \o SubSeq(s, i + 1, Len(s))

\* a history that keeps its two latest Turns only
history_append_windowed(h, turn) ==
    LET all == Append(h, turn)
    IN  IF Len(all) > 2 THEN SubSeq(all, Len(all) - 1, Len(all)) ELSE all

\* conversation_history.append(turn)
history_append(h, turn) == Append(h, turn)

\* ---------------------------------------------------- VoiceActivityDetector
\* vad.py:19-37 and conversation.py:30-52: the detector the manager constructs
\* and registers its callback with.  The configuration fields never change, and
\* the definitions below read them by the names of the constants
VoiceActivityDetector ==
    [sample_rate |-> SAMPLE_RATE, frame_duration_ms |-> FRAME_DURATION_MS,
     silence_threshold_seconds |-> SILENCE_THRESHOLD_SECONDS, frame_size |-> frame_size,
     silence_padding_frames |-> silence_padding_frames,
     speech_padding_frames |-> speech_padding_frames,
     on_silence_detected |-> "_on_silence_detected",
     is_speaking |-> FALSE, silence_start |-> None, speech_detected |-> FALSE,
     consecutive_silence |-> 0, consecutive_speech |-> 0]

\* a reset that leaves speech_detected as it is
reset_keeps_detected(v) ==
    [v EXCEPT !.is_speaking = FALSE, !.silence_start = None,
              !.consecutive_silence = 0, !.consecutive_speech = 0]

\* vad.py:78-84
reset(v) ==
    [v EXCEPT !.is_speaking = FALSE, !.silence_start = None, !.speech_detected = FALSE,
              !.consecutive_silence = 0, !.consecutive_speech = 0]

\* a frame of any length is accepted
wrong_size_never(frame) == FALSE

\* vad.py:44  len(frame) != self.frame_size
wrong_size(frame) == ByteLen(frame) # frame_size

\* speech confirmed one frame early
speech_confirmed_early(n) == n >= speech_padding_frames - 1

\* vad.py:52  the speech frames counted are enough to confirm speech
speech_confirmed(n) == n >= speech_padding_frames

\* every speech frame clears silence_start
after_speech_clearing(v) ==
    LET n == v.consecutive_speech + 1
        v1 == [v EXCEPT !.consecutive_speech = n, !.consecutive_silence = 0,
                        !.silence_start = None]
    IN  IF speech_confirmed(n)
        THEN [v1 EXCEPT !.is_speaking = TRUE, !.speech_detected = TRUE]
        ELSE v1

\* vad.py:50-55  the detector v after a frame classified speech
after_speech(v) ==
    LET n == v.consecutive_speech + 1
        v1 == [v EXCEPT !.consecutive_speech = n, !.consecutive_silence = 0]
    IN  IF speech_confirmed(n)
        THEN [v1 EXCEPT !.is_speaking = TRUE, !.speech_detected = TRUE, !.silence_start = None]
        ELSE v1

\* silence is measured whether speech has been confirmed or not
unconfirmed_never(v) == FALSE

\* vad.py:60  no speech has been confirmed: the silence is not measured
unconfirmed(v) == ~v.speech_detected

\* the measurement starts again with the third frame of a later run of silence
silence_starts_again(v) == v.consecutive_silence = silence_padding_frames

\* vad.py:62  the measurement of the silence starts with this frame, v being
\* the detector with the frame counted
silence_starts(v) ==
    v.consecutive_silence = silence_padding_frames /\ v.silence_start = None

\* the threshold has to be exceeded
threshold_reached_strict(v, t) == t - v.silence_start > SILENCE_THRESHOLD_SECONDS

\* vad.py:66-68  the silence measured at time t has lasted long enough
threshold_reached(v, t) == t - v.silence_start >= SILENCE_THRESHOLD_SECONDS

\* process_frame on a frame at time t, cls being what the classifier does with
\* it; classified: the classifier was called; result: the value returned;
\* fired: the silence callback was invoked
process_frame(v, frame, cls, t) ==
    IF wrong_size(frame)
    THEN [vad |-> v, fired |-> FALSE, result |-> FALSE, classified |-> FALSE]
    ELSE IF cls = "raise"
    THEN [vad |-> v, fired |-> FALSE, result |-> FALSE, classified |-> TRUE]
    ELSE IF cls = "speech"
    THEN [vad |-> after_speech(v), fired |-> FALSE, result |-> TRUE, classified |-> TRUE]
    ELSE
        LET v1 == [v EXCEPT !.consecutive_silence = @ + 1, !.consecutive_speech = 0]
            v2 == IF silence_starts(v1) THEN [v1 EXCEPT !.silence_start = t] ELSE v1
        IN  IF unconfirmed(v)
            THEN [vad |-> v1, fired |-> FALSE, result |-> FALSE, classified |-> TRUE]
            ELSE IF v2.silence_start # None /\ threshold_reached(v2, t)
            THEN [vad |-> reset(v2), fired |-> TRUE, result |-> FALSE, classified |-> TRUE]
            ELSE [vad |-> v2, fired |-> FALSE, result |-> FALSE, classified |-> TRUE]

\* ------------------------------------------------------------ InterviewTimer
\* is_expired with a strict comparison
is_expired_strict == IF start_time = None THEN FALSE ELSE now - start_time > duration_seconds

is_expired == IF start_time = None THEN FALSE ELSE now - start_time >= duration_seconds

\* max() of two numbers
Max(a, b) == IF a >= b THEN a ELSE b

\* remaining_seconds without its clamp
remaining_seconds_unclamped ==
    IF start_time = None THEN duration_seconds ELSE duration_seconds - (now - start_time)

\* utils.py:36-42; int() leaves a whole number of seconds as it is
remaining_seconds ==
    IF start_time = None THEN duration_seconds
    ELSE Max(0, duration_seconds - (now - start_time))

\* -------------------------------------------------------------------- Init
Init ==
    /\ phase = "constructed"
    /\ reconnect_attempts = 0
    /\ backoff = 0
    /\ greeting = NoPayload
    /\ active_conversations = {SessionId}
    /\ websocket = "None"
    /\ interview_active = FALSE
    /\ is_ai_speaking = FALSE
    /\ response_in_progress = FALSE
    /\ current_user_speech = << >>
    /\ conversation_history = << >>
    /\ audio_buffer = << >>
    /\ vad = VoiceActivityDetector
    /\ start_time = None
    /\ now = 0
    /\ ticks = 0
    /\ connection = "None"
    /\ refinished = FALSE
    /\ tasks = << >>
    /\ created = 0
    /\ llmCalls = 0
    /\ sent = [ai_response |-> 0, stop_ai_audio |-> 0, interview_end |-> 0, error |-> 0]
    /\ callLog = << >>
    /\ conns = [k \in Connections |-> NoConnection]
    /\ fed = << >>
    /\ appended = << >>
    /\ slices = << >>

\* ------------------------------------------------------- background work
\* an execution of _generate_and_send_response created by asyncio.create_task;
\* early: created while an earlier generation had not completed yet
GenTask(q) == [kind |-> "gen", pc |-> "ready", arg |-> << >>,
               early |-> \E i \in 1..Len(q) : q[i].kind = "gen"]

\* an execution of _handle_interruption(first_transcript)
IntrTask(t) == [kind |-> "intr", pc |-> "ready", arg |-> t, early |-> FALSE]

\* the ready queue is FIFO: the execution that starts next
FirstReady(q) == CHOOSE i \in 1..Len(q) :
                    /\ q[i].pc = "ready"
                    /\ \A j \in 1..(i - 1) : q[j].pc # "ready"

HasReady(q) == \E i \in 1..Len(q) : q[i].pc = "ready"

\* --------------------------------------------------------- start_interview
\* the handler of app.py:192-201 for an exception that leaves the endpoint:
\* safe_send_json sends the error payload, the websocket having been accepted
\* and not closed by the endpoint
endpoint_error == sent' = [sent EXCEPT !.error = @ + 1]

\* start_interview run again on a manager that has been started
start_interview_again(outcome) ==
    /\ phase \in {"constructed", "started"}
    /\ websocket' = "ws"
    /\ interview_active' = TRUE
    /\ start_time' = now
    /\ IF outcome = "ok"
       THEN /\ conversation_history' =
                  Append(conversation_history, [role |-> "interviewer", text |-> GreetingText])
            /\ phase' = "connecting"
            /\ UNCHANGED sent
       ELSE /\ phase' = "failed"
            /\ endpoint_error
            /\ UNCHANGED conversation_history
    /\ reconnect_attempts' = 0
    /\ callLog' = << >>
    /\ UNCHANGED <<backoff, greeting, active_conversations, aside, is_ai_speaking, response_in_progress,
                   current_user_speech, audio_buffer, vad, now, ticks, connection,
                   refinished, tasks, created, llmCalls>>

\* app.py creates one manager for a connection and calls start_interview once:
\* start_interview up to the first connection attempt of start_streaming.
\* outcome: "greeting_fail" when the greeting's generation or synthesis raises
start_interview(outcome) ==
    /\ phase = "constructed"
    /\ websocket' = "ws"
    /\ interview_active' = TRUE
    /\ start_time' = now
    /\ IF outcome = "ok"
       THEN /\ conversation_history' =
                  history_append(conversation_history,
                                 [role |-> "interviewer", text |-> GreetingText])
            /\ phase' = "connecting"
            /\ UNCHANGED sent
       ELSE /\ phase' = "failed"
            /\ endpoint_error
            /\ UNCHANGED conversation_history
    /\ reconnect_attempts' = 0
    /\ callLog' = << >>
    /\ UNCHANGED <<backoff, greeting, active_conversations, aside, is_ai_speaking, response_in_progress,
                   current_user_speech, audio_buffer, vad, now, ticks, connection,
                   refinished, tasks, created, llmCalls>>

\* --------------------------------------------------------- start_streaming
\* start_interview returning without setting is_ai_speaking for the greeting
start_streaming_attempt_silent(result) ==
    /\ phase = "connecting"
    /\ IF result = "ok"
       THEN /\ connection' = "live"
            /\ is_ai_speaking' = is_ai_speaking
            /\ greeting' = [type |-> "ai_response", text |-> GreetingText,
                            audio |-> encode_audio_to_base64(synthesize(GreetingText))]
            /\ sent' = [sent EXCEPT !.ai_response = @ + 1]
            /\ reconnect_attempts' = 0
            /\ phase' = "started"
            /\ UNCHANGED backoff
       ELSE /\ reconnect_attempts' = reconnect_attempts + 1
            /\ backoff' = 2 ^ (reconnect_attempts + 1)
            /\ phase' = "backoff"
            /\ UNCHANGED <<connection, is_ai_speaking, greeting, sent>>
    /\ callLog' = << >>
    /\ UNCHANGED <<active_conversations, aside, websocket, interview_active, response_in_progress,
                   current_user_speech, conversation_history, audio_buffer, vad, start_time,
                   now, ticks, refinished, tasks, created, llmCalls>>

\* one connection attempt of start_streaming's loop returns.  result "ok": the
\* loop is left, start_streaming returns, start_interview sets is_ai_speaking
\* and returns the greeting payload, which the endpoint sends.  result "raise":
\* the attempt is counted and the backoff sleep begins
start_streaming_attempt(result) ==
    /\ phase = "connecting"
    /\ IF result = "ok"
       THEN /\ connection' = "live"
            /\ is_ai_speaking' = TRUE
            /\ greeting' = [type |-> "ai_response", text |-> GreetingText,
                            audio |-> encode_audio_to_base64(synthesize(GreetingText))]
            /\ sent' = [sent EXCEPT !.ai_response = @ + 1]
            /\ reconnect_attempts' = 0
            /\ phase' = "started"
            /\ UNCHANGED backoff
       ELSE /\ reconnect_attempts' = reconnect_attempts + 1
            /\ backoff' = 2 ^ (reconnect_attempts + 1)
            /\ phase' = "backoff"
            /\ UNCHANGED <<connection, is_ai_speaking, greeting, sent>>
    /\ callLog' = << >>
    /\ UNCHANGED <<active_conversations, aside, websocket, interview_active, response_in_progress,
                   current_user_speech, conversation_history, audio_buffer, vad, start_time,
                   now, ticks, refinished, tasks, created, llmCalls>>

\* a loop that is left one failed attempt later
retries_exhausted_late == reconnect_attempts > max_reconnect_attempts

\* the loop test of start_streaming
retries_exhausted == reconnect_attempts >= max_reconnect_attempts

\* the backoff sleep is over: the loop goes on to its next attempt, or it is
\* left after the last one and RuntimeError goes up through start_interview to
\* the endpoint's handler
start_streaming_retry ==
    /\ phase = "backoff"
    /\ backoff' = 0
    /\ IF retries_exhausted
       THEN /\ phase' = "failed"
            /\ reconnect_attempts' = 0
            /\ endpoint_error
       ELSE /\ phase' = "connecting"
            /\ UNCHANGED <<reconnect_attempts, sent>>
    /\ callLog' = << >>
    /\ UNCHANGED <<greeting, active_conversations, aside, websocket, interview_active, is_ai_speaking,
                   response_in_progress, current_user_speech, conversation_history,
                   audio_buffer, vad, start_time, now, ticks, connection, refinished, tasks,
                   created, llmCalls>>

\* ------------------------------------------------------ silence callback
\* _on_silence_detected without its test of response_in_progress
on_silence_detected_unguarded(q) ==
    IF Strip(current_user_speech) # << >> /\ ~is_ai_speaking
    THEN Append(q, GenTask(q))
    ELSE q

\* _on_silence_detected with q the executions created so far: the new queue
on_silence_detected(q) ==
    IF Strip(current_user_speech) # << >> /\ ~is_ai_speaking /\ ~response_in_progress
    THEN Append(q, GenTask(q))
    ELSE q

\* ----------------------------------------------------- process_audio_chunk
\* the slicing of the while loop of process_audio_chunk: the complete frames it
\* cuts from the front of buf, in order, and the bytes it leaves in the buffer
\* conversation.py:118  self.audio_buffer[:frame_size]
frame_of(buf) == SubSeq(buf, 1, frame_size \div BlockBytes)

\* the buffer keeps the last block of the frame cut from it
buffer_after_overlapping(buf) == SubSeq(buf, frame_size \div BlockBytes, Len(buf))

\* conversation.py:119  self.audio_buffer[frame_size:]
buffer_after(buf) == SubSeq(buf, (frame_size \div BlockBytes) + 1, Len(buf))

RECURSIVE CutFrames(_)
CutFrames(buf) ==
    IF ByteLen(buf) >= frame_size
    THEN LET r == CutFrames(buffer_after(buf))
         IN  [frames |-> <<frame_of(buf)>> \o r.frames, buf |-> r.buf]
    ELSE [frames |-> << >>, buf |-> buf]

\* the body of that loop over the frames it cut, frame k classified cls[k]; the
\* log entry of a process_frame call names the callback it invoked, if any
RECURSIVE FeedFrames(_, _, _, _)
FeedFrames(v, frames, cls, q) ==
    IF frames # << >>
    THEN LET r == process_frame(v, Head(frames), Head(cls), now)
             rest == FeedFrames(r.vad, Tail(frames), Tail(cls),
                                IF r.fired THEN on_silence_detected(q) ELSE q)
         IN  [rest EXCEPT !.log = <<[op |-> "process_frame", frame |-> Head(frames),
                                     data |-> IF r.fired THEN <<"_on_silence_detected">>
                                              ELSE << >>]>> \o @]
    ELSE [vad |-> v, tasks |-> q, log |-> << >>]

\* send_audio with its connection test inverted
send_audio_unconnected(data) ==
    IF connection = "None" THEN <<[op |-> "send_audio", data |-> data]>> ELSE << >>

\* SpeechRecognizer.send_audio
send_audio(data) ==
    IF connection # "None" THEN <<[op |-> "send_audio", data |-> data]>> ELSE << >>

\* SpeechRecognizer.close()
close ==
    /\ connection' = IF connection # "None" THEN "finished" ELSE connection
    /\ refinished' = (refinished \/ connection = "finished")

\* _end_interview that leaves interview_active set
EndInterviewBody_stays_active(synth) ==
    /\ interview_active' = interview_active
    /\ sent' = IF synth = "ok" /\ websocket # "None"
               THEN [sent EXCEPT !.interview_end = @ + 1] ELSE sent
    /\ IF synth = "ok" THEN close ELSE UNCHANGED <<connection, refinished>>

\* the body of _end_interview past its guard; synth: whether synthesize raises
EndInterviewBody(synth) ==
    /\ interview_active' = FALSE
    /\ sent' = IF synth = "ok" /\ websocket # "None"
               THEN [sent EXCEPT !.interview_end = @ + 1] ELSE sent
    /\ IF synth = "ok" THEN close ELSE UNCHANGED <<connection, refinished>>

\* process_audio_chunk without its test of interview_active
session_inactive_unchecked == FALSE

\* process_audio_chunk returns at once on a session that is not active
session_inactive == ~interview_active

\* the detector hears the candidate although the interviewer is speaking
detector_paused_never == FALSE

\* process_audio_chunk returns before the detector while the interviewer speaks
detector_paused == is_ai_speaking

process_audio_chunk(audio_data) ==
    /\ phase = "started"
    /\ UNCHANGED <<phase, endpoint, conns, fed, websocket, is_ai_speaking, response_in_progress,
                   current_user_speech,
                   conversation_history, start_time, now, ticks, llmCalls>>
    /\ IF session_inactive
       THEN /\ callLog' = << >>
            /\ UNCHANGED <<interview_active, sent, connection, refinished, audio_buffer, vad,
                           tasks, created>>
       ELSE IF is_expired
       THEN /\ \E synth \in {"ok", "raise"} : EndInterviewBody(synth)
            /\ callLog' = <<[op |-> "_end_interview", data |-> << >>]>>
            /\ UNCHANGED <<audio_buffer, vad, tasks, created>>
       ELSE IF detector_paused
       THEN /\ callLog' = send_audio(audio_data)
            /\ UNCHANGED <<interview_active, sent, connection, refinished, audio_buffer, vad,
                           tasks, created>>
       ELSE LET cut == CutFrames(audio_buffer \o audio_data)
            IN  /\ audio_buffer' = cut.buf
                /\ UNCHANGED <<interview_active, sent, connection, refinished>>
                /\ \E r \in {FeedFrames(vad, cut.frames, cls, tasks) :
                               cls \in [1..Len(cut.frames) -> Classifications]} :
                      /\ r.vad.consecutive_speech <= MaxConsec
                      /\ r.vad.consecutive_silence <= MaxConsec
                      /\ created + (Len(r.tasks) - Len(tasks)) <= MaxTasks
                      /\ vad' = r.vad
                      /\ tasks' = r.tasks
                      /\ created' = created + (Len(r.tasks) - Len(tasks))
                      /\ callLog' = send_audio(audio_data) \o r.log

\* ---------------------------------------------------------- _end_interview
end_interview ==
    /\ phase = "started"
    /\ IF ~interview_active
       THEN UNCHANGED <<interview_active, sent, connection, refinished>>
       ELSE \E synth \in {"ok", "raise"} : EndInterviewBody(synth)
    /\ callLog' = << >>
    /\ UNCHANGED <<phase, endpoint, aside, websocket, is_ai_speaking, response_in_progress, current_user_speech,
                   conversation_history, audio_buffer, vad, start_time, now, ticks,
                   tasks, created, llmCalls>>

\* -------------------------------------------------------------------- stop
stop ==
    /\ phase = "started"
    /\ interview_active' = FALSE
    /\ close
    /\ callLog' = << >>
    /\ UNCHANGED <<phase, endpoint, aside, websocket, is_ai_speaking, response_in_progress, current_user_speech,
                   conversation_history, audio_buffer, vad, start_time, now, ticks,
                   tasks, created, llmCalls, sent>>

\* ----------------------------------------------------------------- cleanup
\* the endpoint has left its receive loop (the session ended, a "stop" message
\* or the client went away): it stops the manager, drops the session from the
\* registry and closes the websocket
cleanup ==
    /\ phase = "started"
    /\ interview_active' = FALSE
    /\ close
    /\ active_conversations' = active_conversations \ {SessionId}
    /\ phase' = "closed"
    /\ callLog' = << >>
    /\ UNCHANGED <<reconnect_attempts, backoff, greeting, aside, websocket, is_ai_speaking,
                   response_in_progress, current_user_speech, conversation_history,
                   audio_buffer, vad, start_time, now, ticks, tasks, created, llmCalls, sent>>

\* ------------------------------------------------ handle_websocket_message
Messages == {"stop", "ai_audio_completed", "other"}

\* the playback-completed signal treated like any other message
handle_websocket_message_ignoring(msg_type) ==
    /\ phase = "started"
    /\ IF msg_type = "stop" THEN stop
       ELSE /\ is_ai_speaking' = is_ai_speaking
            /\ callLog' = << >>
            /\ UNCHANGED <<phase, endpoint, aside, websocket, interview_active, response_in_progress,
                           current_user_speech, conversation_history, audio_buffer, vad,
                           start_time, now, ticks, connection, refinished, tasks, created,
                           llmCalls, sent>>

handle_websocket_message(msg_type) ==
    /\ phase = "started"
    /\ IF msg_type = "stop" THEN stop
       ELSE /\ is_ai_speaking' = IF msg_type = "ai_audio_completed" THEN FALSE ELSE is_ai_speaking
            /\ callLog' = << >>
            /\ UNCHANGED <<phase, endpoint, aside, websocket, interview_active, response_in_progress,
                           current_user_speech, conversation_history, audio_buffer, vad,
                           start_time, now, ticks, connection, refinished, tasks, created,
                           llmCalls, sent>>

\* ------------------------------------------------- _on_transcript_received
\* _on_transcript_received putting the new transcript before the accumulated ones
on_transcript_received_prepending(transcript) ==
    /\ phase = "started"
    /\ connection = "live"
    /\ IF transcript = << >>
       THEN UNCHANGED <<tasks, created, current_user_speech>>
       ELSE IF is_ai_speaking
       THEN /\ created < MaxTasks
            /\ tasks' = Append(tasks, IntrTask(transcript))
            /\ created' = created + 1
            /\ UNCHANGED current_user_speech
       ELSE /\ Len(current_user_speech) + 1 + Len(transcript) <= MaxSpeechLen
            /\ current_user_speech' = transcript \o <<" ">> \o current_user_speech
            /\ UNCHANGED <<tasks, created>>
    /\ callLog' = << >>
    /\ UNCHANGED <<phase, endpoint, aside, websocket, interview_active, is_ai_speaking,
                   response_in_progress, conversation_history, audio_buffer, vad, start_time,
                   now, ticks, connection, refinished, llmCalls, sent>>

\* the recognition stream delivers transcripts while it is open
on_transcript_received(transcript) ==
    /\ phase = "started"
    /\ connection = "live"
    /\ IF transcript = << >>
       THEN UNCHANGED <<tasks, created, current_user_speech>>
       ELSE IF is_ai_speaking
       THEN /\ created < MaxTasks
            /\ tasks' = Append(tasks, IntrTask(transcript))
            /\ created' = created + 1
            /\ UNCHANGED current_user_speech
       ELSE /\ Len(current_user_speech) + 1 + Len(transcript) <= MaxSpeechLen
            /\ current_user_speech' = current_user_speech \o <<" ">> \o transcript
            /\ UNCHANGED <<tasks, created>>
    /\ callLog' = << >>
    /\ UNCHANGED <<phase, endpoint, aside, websocket, interview_active, is_ai_speaking, response_in_progress,
                   conversation_history, audio_buffer, vad, start_time, now, ticks, connection,
                   refinished, llmCalls, sent>>

\* ------------------------------------------- InterviewerAI.generate_response
\* llm: whether the language service fails.  generate_response catches the
\* failure and returns its fallback sentence: its caller gets a reply text
\* either way and cannot tell the two apart
generate_response(llm) == ReplyText

\* --------------------------------------------- _generate_and_send_response
\* the single-flight guard left out
already_in_progress_unchecked == FALSE

\* the single-flight guard at the head of _generate_and_send_response
already_in_progress == response_in_progress

\* the execution capturing the accumulator without clearing it
generate_and_send_response_keeps_accumulator(i, llm, synth, suspends) ==
    IF already_in_progress
    THEN /\ tasks' = RemoveAt(tasks, i)
         /\ UNCHANGED <<response_in_progress, is_ai_speaking, current_user_speech, vad,
                        conversation_history, llmCalls, sent>>
    ELSE /\ is_ai_speaking' = TRUE
         /\ current_user_speech' = current_user_speech
         /\ vad' = reset(vad)
         /\ conversation_history' = conversation_history \o
                <<[role |-> "candidate", text |-> Strip(current_user_speech)],
                  [role |-> "interviewer", text |-> generate_response(llm)]>>
         /\ llmCalls' = llmCalls + 1
         /\ sent' = IF synth = "ok" /\ websocket # "None"
                    THEN [sent EXCEPT !.ai_response = @ + 1] ELSE sent
         /\ response_in_progress' = (synth = "ok" /\ websocket # "None" /\ suspends)
         /\ tasks' = IF synth = "ok" /\ websocket # "None" /\ suspends
                     THEN [tasks EXCEPT ![i].pc = "sending"] ELSE RemoveAt(tasks, i)

\* the execution without its finally clause: a failure leaves the flag set
generate_and_send_response_no_finally(i, llm, synth, suspends) ==
    IF already_in_progress
    THEN /\ tasks' = RemoveAt(tasks, i)
         /\ UNCHANGED <<response_in_progress, is_ai_speaking, current_user_speech, vad,
                        conversation_history, llmCalls, sent>>
    ELSE /\ is_ai_speaking' = TRUE
         /\ current_user_speech' = << >>
         /\ vad' = reset(vad)
         /\ conversation_history' = conversation_history \o
                <<[role |-> "candidate", text |-> Strip(current_user_speech)],
                  [role |-> "interviewer", text |-> generate_response(llm)]>>
         /\ llmCalls' = llmCalls + 1
         /\ sent' = IF synth = "ok" /\ websocket # "None"
                    THEN [sent EXCEPT !.ai_response = @ + 1] ELSE sent
         /\ response_in_progress' = ~(synth = "ok" /\ websocket # "None" /\ ~suspends)
         /\ tasks' = IF synth = "ok" /\ websocket # "None" /\ suspends
                     THEN [tasks EXCEPT ![i].pc = "sending"] ELSE RemoveAt(tasks, i)

\* the execution leaving is_ai_speaking as it finds it
generate_and_send_response_not_speaking(i, llm, synth, suspends) ==
    IF already_in_progress
    THEN /\ tasks' = RemoveAt(tasks, i)
         /\ UNCHANGED <<response_in_progress, is_ai_speaking, current_user_speech, vad,
                        conversation_history, llmCalls, sent>>
    ELSE /\ is_ai_speaking' = is_ai_speaking
         /\ current_user_speech' = << >>
         /\ vad' = reset(vad)
         /\ conversation_history' = conversation_history \o
                <<[role |-> "candidate", text |-> Strip(current_user_speech)],
                  [role |-> "interviewer", text |-> generate_response(llm)]>>
         /\ llmCalls' = llmCalls + 1
         /\ sent' = IF synth = "ok" /\ websocket # "None"
                    THEN [sent EXCEPT !.ai_response = @ + 1] ELSE sent
         /\ response_in_progress' = (synth = "ok" /\ websocket # "None" /\ suspends)
         /\ tasks' = IF synth = "ok" /\ websocket # "None" /\ suspends
                     THEN [tasks EXCEPT ![i].pc = "sending"] ELSE RemoveAt(tasks, i)

\* from the start of the execution to its first suspension or its end.
\* llm: whether the language service fails; synth: whether synthesize raises;
\* suspends: whether websocket.send_json suspends the execution
generate_and_send_response(i, llm, synth, suspends) ==
    IF already_in_progress
    THEN /\ tasks' = RemoveAt(tasks, i)
         /\ UNCHANGED <<response_in_progress, is_ai_speaking, current_user_speech, vad,
                        conversation_history, llmCalls, sent>>
    ELSE LET user_text == Strip(current_user_speech)
             ai_response_text == generate_response(llm)
         IN  /\ is_ai_speaking' = TRUE
             /\ current_user_speech' = << >>
             /\ vad' = reset(vad)
             /\ conversation_history' =
                    history_append(history_append(conversation_history,
                                                  [role |-> "candidate", text |-> user_text]),
                                   [role |-> "interviewer", text |-> ai_response_text])
             /\ llmCalls' = llmCalls + 1
             /\ sent' = IF synth = "ok" /\ websocket # "None"
                        THEN [sent EXCEPT !.ai_response = @ + 1] ELSE sent
             /\ IF synth = "ok" /\ websocket # "None" /\ suspends
                THEN /\ response_in_progress' = TRUE
                     /\ tasks' = [tasks EXCEPT ![i].pc = "sending"]
                ELSE /\ response_in_progress' = FALSE
                     /\ tasks' = RemoveAt(tasks, i)

\* the finally clause, after send_json has returned
generate_and_send_response_resume(i) ==
    /\ response_in_progress' = FALSE
    /\ tasks' = RemoveAt(tasks, i)
    /\ UNCHANGED <<is_ai_speaking, current_user_speech, vad, conversation_history,
                   llmCalls, sent>>

\* ---------------------------------------------------- _handle_interruption
\* step 4 appending the transcript to the accumulator
handle_interruption_resume_appending(i) ==
    /\ vad' = reset(vad)
    /\ current_user_speech' = current_user_speech \o Strip(tasks[i].arg)
    /\ tasks' = RemoveAt(tasks, i)

\* steps 3 and 4, after send_json has returned
handle_interruption_resume(i) ==
    /\ vad' = reset(vad)
    /\ current_user_speech' = Strip(tasks[i].arg)
    /\ tasks' = RemoveAt(tasks, i)

\* steps 1 and 2, and the rest when send_json does not suspend
handle_interruption(i, suspends) ==
    /\ is_ai_speaking' = FALSE
    /\ sent' = IF websocket # "None" THEN [sent EXCEPT !.stop_ai_audio = @ + 1] ELSE sent
    /\ IF websocket # "None" /\ suspends
       THEN /\ tasks' = [tasks EXCEPT ![i].pc = "sending"]
            /\ UNCHANGED <<vad, current_user_speech>>
       ELSE handle_interruption_resume(i)
    /\ UNCHANGED <<response_in_progress, conversation_history, llmCalls>>

\* ------------------------------------------------------------- event loop
\* the loop starts the first execution of its ready queue.  The session is
\* followed until the endpoint has closed the websocket
RunTask ==
    /\ phase # "closed"
    /\ HasReady(tasks)
    /\ LET i == FirstReady(tasks)
       IN  IF tasks[i].kind = "gen"
           THEN \E llm \in {"ok", "fail"}, synth \in {"ok", "raise"}, suspends \in BOOLEAN :
                    generate_and_send_response(i, llm, synth, suspends)
           ELSE \E suspends \in BOOLEAN : handle_interruption(i, suspends)
    /\ callLog' = << >>
    /\ UNCHANGED <<phase, endpoint, aside, websocket, interview_active, audio_buffer, start_time, now, ticks,
                   connection, refinished, created>>

\* send_json returns and the loop resumes the execution suspended on it
ResumeTask ==
    /\ phase # "closed"
    /\ \E i \in 1..Len(tasks) :
         /\ tasks[i].pc = "sending"
         /\ IF tasks[i].kind = "gen"
            THEN generate_and_send_response_resume(i)
            ELSE /\ handle_interruption_resume(i)
                 /\ UNCHANGED <<is_ai_speaking, response_in_progress, conversation_history,
                                llmCalls, sent>>
    /\ callLog' = << >>
    /\ UNCHANGED <<phase, endpoint, aside, websocket, interview_active, audio_buffer, start_time, now, ticks,
                   connection, refinished, created>>

\* ------------------------------------------------------------------ clock
\* time passes by d seconds.  The clock is read by process_audio_chunk on an
\* active session only, for the timer (in units of duration_seconds) and for a
\* silence being timed (in units of the threshold); it is advanced when one of
\* these readings can change
Tick(d) ==
    /\ phase = "started"
    /\ interview_active
    /\ ~is_expired
    /\ \/ d = duration_seconds
       \/ vad.silence_start # None /\ now - vad.silence_start < SILENCE_THRESHOLD_SECONDS
    /\ ticks < MaxTicks
    /\ now' = now + d
    /\ ticks' = ticks + 1
    /\ callLog' = << >>
    /\ UNCHANGED <<phase, endpoint, aside, websocket, interview_active, is_ai_speaking, response_in_progress,
                   current_user_speech, conversation_history, audio_buffer, vad, start_time,
                   connection, refinished, tasks, created, llmCalls, sent>>

\* ------------------------------------------------- the audio buffer followed
\* a chunk of len blocks, each block named by its place among the blocks
\* appended to the buffer
NumberedChunk(len) == [i \in 1..len |-> Len(appended) + i]

\* the frames of the process_frame calls in a call log, in order
RECURSIVE FramesFed(_)
FramesFed(log) ==
    IF log = << >> THEN << >>
    ELSE IF Head(log).op = "process_frame" THEN <<Head(log).frame>> \o FramesFed(Tail(log))
    ELSE FramesFed(Tail(log))

\* process_audio_chunk with what it appends to the buffer (conversation.py:112,
\* reached on an active, unexpired session while the interviewer is silent) and
\* what it feeds to the detector (conversation.py:122) recorded
chunk_arrives(len) ==
    /\ Len(appended) + len <= MaxAppended
    /\ process_audio_chunk(NumberedChunk(len))
    /\ appended' = IF interview_active /\ ~is_expired /\ ~is_ai_speaking
                   THEN appended \o NumberedChunk(len)
                   ELSE appended
    /\ slices' = slices \o FramesFed(callLog')

ChunkNext ==
    \/ start_interview("ok")
    \/ start_streaming_attempt("ok")
    \/ handle_websocket_message("ai_audio_completed")
    \/ \E len \in 1..3 : chunk_arrives(len)
    \/ stop

\* a session whose chunks are told apart
ChunkSpec == Init /\ [][ChunkNext]_vars

\* ------------------------------------------------- the detector on its own
\* what a detector driven alone leaves as it is; its callback is the manager's
\* _on_silence_detected, which schedules nothing while no transcript has come
standing == <<phase, endpoint, conns, appended, slices, websocket, interview_active,
              is_ai_speaking, response_in_progress, current_user_speech, conversation_history,
              audio_buffer, start_time, connection, refinished, tasks, created, llmCalls, sent>>

\* vad.process_frame(frame) at the time now, the classifier doing cls with the
\* frame if it is called
vad_process_frame(frame, cls) ==
    LET r == process_frame(vad, frame, cls, now)
        counted == r.classified /\ cls # "raise"
    IN  /\ counted /\ ~r.fired => Len(fed) < MaxFed
        /\ vad' = r.vad
        /\ tasks' = IF r.fired THEN on_silence_detected(tasks) ELSE tasks
        /\ fed' = IF r.fired THEN << >>
                  ELSE IF counted THEN Append(fed, cls)
                  ELSE fed
        /\ callLog' = <<[op |-> "process_frame", frame |-> frame,
                         data |-> IF r.fired THEN <<"_on_silence_detected">> ELSE << >>,
                         cls |-> IF r.classified THEN cls ELSE "none",
                         result |-> r.result]>>
        /\ UNCHANGED <<phase, endpoint, conns, appended, slices, websocket, interview_active,
                       is_ai_speaking, response_in_progress, current_user_speech,
                       conversation_history, audio_buffer, start_time, now, ticks,
                       connection, refinished, created, llmCalls, sent>>

\* vad.reset() called from outside the detector; the log entry tells what the
\* classifier had made of the frames since the reset before
vad_reset ==
    /\ vad' = reset(vad)
    /\ fed' = << >>
    /\ callLog' = <<[op |-> "reset", data |-> fed]>>
    /\ UNCHANGED <<standing, now, ticks>>

\* time.time() advances by the silence threshold
vad_tick ==
    /\ ticks < MaxTicks
    /\ now' = now + SILENCE_THRESHOLD_SECONDS
    /\ ticks' = ticks + 1
    /\ callLog' = << >>
    /\ UNCHANGED <<standing, vad, fed>>

VadNext ==
    \/ \E frame \in Frames, cls \in Classifications : vad_process_frame(frame, cls)
    \/ vad_reset
    \/ vad_tick

\* the detector of a constructed manager, driven frame by frame
VadSpec == Init /\ [][VadNext]_vars

\* ------------------------------------------------------ several connections
\* the variables of the one session followed in detail
session == <<phase, reconnect_attempts, backoff, greeting, websocket, interview_active,
             is_ai_speaking, response_in_progress, current_user_speech, conversation_history,
             audio_buffer, vad, start_time, now, ticks, connection, refinished, tasks,
             created, llmCalls, sent, callLog>>

\* interview_websocket for connection k, step by step.  at: where the run is;
\* manager: it holds a ConversationManager (its local conversation, from the
\* constructor call to its return); reconnect_attempts: start_streaming's local.
\* app.py:119  await websocket.accept()
interview_websocket_accept(k) ==
    /\ conns[k].at = "unopened"
    /\ conns' = [conns EXCEPT ![k].at = "accepted"]
    /\ UNCHANGED <<session, active_conversations, fed, appended, slices>>

\* app.py:123-140: an unknown session id is answered with an error payload and
\* the run returns; otherwise a manager is constructed and start_interview
\* runs up to the first connection attempt of start_streaming, or raises
interview_websocket_create(k, outcome) ==
    /\ conns[k].at = "accepted"
    /\ conns' = IF SessionId \notin active_conversations
                THEN [conns EXCEPT ![k].at = "rejected"]
                ELSE IF outcome = "ok"
                THEN [conns EXCEPT ![k] = [at |-> "connecting", manager |-> TRUE,
                                           reconnect_attempts |-> 0]]
                ELSE [conns EXCEPT ![k].at = "failed"]
    /\ UNCHANGED <<session, active_conversations, fed, appended, slices>>

\* speech_recognition.py:109-139 for the manager of connection k
interview_websocket_attempt(k, result) ==
    /\ conns[k].at = "connecting"
    /\ conns' = IF result = "ok"
                THEN [conns EXCEPT ![k].at = "started", ![k].reconnect_attempts = 0]
                ELSE [conns EXCEPT ![k].at = "backoff", ![k].reconnect_attempts = @ + 1]
    /\ UNCHANGED <<session, active_conversations, fed, appended, slices>>

\* speech_recognition.py:139-141 and app.py:192-206: the sleep is over; with
\* the attempts used up the run ends in its exception handler
interview_websocket_retry(k) ==
    /\ conns[k].at = "backoff"
    /\ conns' = IF conns[k].reconnect_attempts >= max_reconnect_attempts
                THEN [conns EXCEPT ![k] = [at |-> "failed", manager |-> FALSE,
                                           reconnect_attempts |-> 0]]
                ELSE [conns EXCEPT ![k].at = "connecting"]
    /\ UNCHANGED <<session, active_conversations, fed, appended, slices>>

\* app.py:144-190 and 202-206: the receive loop is left, the manager stopped,
\* the session id deleted from the registry and the run returns
interview_websocket_cleanup(k) ==
    /\ conns[k].at = "started"
    /\ conns' = [conns EXCEPT ![k].at = "closed", ![k].manager = FALSE]
    /\ active_conversations' = active_conversations \ {SessionId}
    /\ UNCHANGED <<session, fed, appended, slices>>

ConnNext ==
    \/ \E k \in Connections : interview_websocket_accept(k)
    \/ \E k \in Connections, outcome \in {"ok", "greeting_fail"} :
          interview_websocket_create(k, outcome)
    \/ \E k \in Connections, result \in {"ok", "raise"} : interview_websocket_attempt(k, result)
    \/ \E k \in Connections : interview_websocket_retry(k)
    \/ \E k \in Connections : interview_websocket_cleanup(k)

\* the endpoint serving the connections for one registered session id
ConnSpec == Init /\ [][ConnNext]_vars

\* ------------------------------------------- the candidate falling silent
\* process_frame tells the values of consecutive_silence apart by whether they
\* equal silence_padding_frames (vad.py:62) and those of consecutive_speech by
\* whether they have reached speech_padding_frames (vad.py:52): the counters are
\* followed up to the first value past which no test can tell
counted(v) ==
    [v EXCEPT !.consecutive_silence = IF @ > silence_padding_frames
                                      THEN silence_padding_frames + 1 ELSE @,
              !.consecutive_speech = IF @ > speech_padding_frames
                                     THEN speech_padding_frames ELSE @]

\* process_audio_chunk on a chunk whose frames the classifier all takes for c
audio_arrives(audio_data, c) ==
    /\ phase = "started"
    /\ UNCHANGED <<phase, endpoint, aside, websocket, is_ai_speaking, response_in_progress,
                   current_user_speech, conversation_history, start_time, now, ticks,
                   llmCalls>>
    /\ IF session_inactive
       THEN /\ callLog' = << >>
            /\ UNCHANGED <<interview_active, sent, connection, refinished, audio_buffer, vad,
                           tasks, created>>
       ELSE IF is_expired
       THEN /\ \E synth \in {"ok", "raise"} : EndInterviewBody(synth)
            /\ callLog' = <<[op |-> "_end_interview", data |-> << >>]>>
            /\ UNCHANGED <<audio_buffer, vad, tasks, created>>
       ELSE IF detector_paused
       THEN /\ callLog' = send_audio(audio_data)
            /\ UNCHANGED <<interview_active, sent, connection, refinished, audio_buffer, vad,
                           tasks, created>>
       ELSE LET cut == CutFrames(audio_buffer \o audio_data)
                r == FeedFrames(vad, cut.frames, [k \in 1..Len(cut.frames) |-> c], tasks)
            IN  /\ created + (Len(r.tasks) - Len(tasks)) <= MaxTasks
                /\ audio_buffer' = cut.buf
                /\ vad' = counted(r.vad)
                /\ tasks' = r.tasks
                /\ created' = created + (Len(r.tasks) - Len(tasks))
                /\ callLog' = send_audio(audio_data) \o r.log
                /\ UNCHANGED <<interview_active, sent, connection, refinished>>

\* a session in which the candidate speaks and falls silent, and transcripts
\* arrive when the recognition service has them
SilenceNext ==
    \/ start_interview("ok")
    \/ start_streaming_attempt("ok")
    \/ handle_websocket_message("ai_audio_completed")
    \/ on_transcript_received(<<" ", "a">>)
    \/ audio_arrives(<<0>>, "speech")
    \/ audio_arrives(<<0>>, "silence")
    \/ RunTask
    \/ ResumeTask
    \/ Tick(SILENCE_THRESHOLD_SECONDS)

\* the microphone keeps delivering audio, which the classifier takes for
\* silence once the candidate has stopped speaking; the event loop starts the
\* executions it holds ready and resumes them when send_json returns; time passes
SilenceSpec ==
    /\ Init /\ [][SilenceNext]_vars
    /\ WF_vars(audio_arrives(<<0>>, "silence"))
    /\ WF_vars(RunTask)
    /\ WF_vars(ResumeTask)
    /\ WF_vars(Tick(SILENCE_THRESHOLD_SECONDS))

Next ==
    \/ \E outcome \in {"ok", "greeting_fail"} : start_interview(outcome)
    \/ \E result \in {"ok", "raise"} : start_streaming_attempt(result)
    \/ start_streaming_retry
    \/ \E audio_data \in Chunks :
          process_audio_chunk(audio_data) /\ UNCHANGED <<appended, slices>>
    \/ \E msg_type \in Messages : handle_websocket_message(msg_type)
    \/ \E transcript \in Transcripts : on_transcript_received(transcript)
    \/ end_interview
    \/ stop
    \/ cleanup
    \/ RunTask
    \/ ResumeTask
    \/ \E d \in TickSteps : Tick(d)

Spec == Init /\ [][Next]_vars

\* the awaits of start_streaming return: a connection attempt ends, one way or
\* the other, and a backoff sleep is over after its delay
StartSpec ==
    /\ Spec
    /\ WF_vars(\E result \in {"ok", "raise"} : start_streaming_attempt(result))
    /\ WF_vars(start_streaming_retry)

\* ================================================================= claims
\* the executions of _generate_and_send_response past the guard, not completed
InFlight == {i \in 1..Len(tasks) : tasks[i].kind = "gen" /\ tasks[i].pc = "sending"}

\* the step starts the execution i of the ready queue
Starts(i) ==
    /\ i \in 1..Len(tasks)
    /\ tasks[i].pc = "ready"
    /\ tasks' = RemoveAt(tasks, i) \/ tasks' = [tasks EXCEPT ![i].pc = "sending"]

\* the step completes the execution i
Completes(i) ==
    /\ i \in 1..Len(tasks)
    /\ tasks' = RemoveAt(tasks, i)

\* the flags, texts, buffer and detector of the orchestrator
orchestrator == <<interview_active, is_ai_speaking, response_in_progress, current_user_speech,
                  conversation_history, audio_buffer, vad>>

\* C1: in every reachable state at most one execution of
\* _generate_and_send_response is past its guard and not yet completed
C1_SingleFlight == Cardinality(InFlight) <= 1

\* C1 witness: one execution is in flight while another one waits to start
C1_Witness ==
    /\ InFlight # {}
    /\ \E i \in 1..Len(tasks) : tasks[i].kind = "gen" /\ tasks[i].pc = "ready"

\* C2: a response generation created by a silence notification that fired before
\* an earlier generation had completed calls the language collaborator no second
\* time and sends no second ai_response payload
C2_OneCallPerBurst ==
    [][\A i \in 1..Len(tasks) :
          (tasks[i].kind = "gen" /\ tasks[i].early /\ Starts(i))
          => (llmCalls' = llmCalls /\ sent'.ai_response = sent.ai_response)]_vars

C4_NoOutputAfterEnd ==
    [][(phase = "started" /\ ~interview_active)
       => (sent'.ai_response = sent.ai_response /\ sent'.stop_ai_audio = sent.stop_ai_audio)]_vars

\* C5: a process_audio_chunk call made while is_ai_speaking is true changes
\* neither audio_buffer nor any field of the detector
C5_FastPath ==
    [][(is_ai_speaking /\ \E c \in Chunks : process_audio_chunk(c))
       => UNCHANGED <<audio_buffer, vad>>]_vars

\* C5 witness: a chunk has been processed while the interviewer was speaking and
\* a partial frame was waiting in the buffer
C5_Witness ==
    /\ is_ai_speaking
    /\ audio_buffer # << >>
    /\ callLog # << >>

\* the calls of the step just taken begin with send_audio(c), and the others
\* are process_frame calls
ForwardedFirst(c) ==
    /\ callLog' # << >>
    /\ callLog'[1] = [op |-> "send_audio", data |-> c]
    /\ \A k \in 2..Len(callLog') : callLog'[k].op = "process_frame"

\* C6: a process_audio_chunk call on an active session whose timer has not
\* expired forwards the raw chunk to the recognizer first, is_ai_speaking or not,
\* and only then feeds frames to the detector.  Stated by contraposition: on
\* such a session, a step whose calls are not of that form for the chunk c is no
\* process_audio_chunk(c) step
C6_AlwaysForwarded ==
    [][\A c \in Chunks :
          (interview_active /\ start_time # None /\ now - start_time < duration_seconds
             /\ ~ForwardedFirst(c))
          => ~process_audio_chunk(c)]_vars

\* C6 witness: a chunk was forwarded while the interviewer was speaking, and
\* nothing else was done with it
C6_Witness ==
    /\ is_ai_speaking
    /\ Len(callLog) = 1
    /\ callLog[1].op = "send_audio"

\* C7: once the elapsed time has reached the duration, a process_audio_chunk call
\* on an active session runs _end_interview once, leaves the session inactive and
\* neither forwards the chunk nor feeds the detector; a call on the inactive
\* session runs nothing
C7_TimerEnds ==
    [][\A c \in Chunks :
          /\ (interview_active /\ start_time # None /\ now - start_time >= duration_seconds
                /\ process_audio_chunk(c))
             => /\ ~interview_active'
                /\ callLog' = <<[op |-> "_end_interview", data |-> << >>]>>
                /\ UNCHANGED <<audio_buffer, vad>>
          /\ (phase = "started" /\ ~interview_active /\ process_audio_chunk(c))
             => (callLog' = << >> /\ sent' = sent)]_vars

\* C7 witness: the timer has ended the interview
C7_Witness ==
    /\ ~interview_active
    /\ callLog = <<[op |-> "_end_interview", data |-> << >>]>>
    /\ now - start_time >= duration_seconds

\* C8: at most one interview_end payload is sent in a session
C8_OneTerminalPayload == sent.interview_end <= 1

\* C8 witness: the closing payload was sent and the session was stopped after it
C8_Witness == sent.interview_end = 1 /\ refinished

\* C9: stop() and _end_interview() on an inactive session change no orchestrator
\* state, send no payload and do not release the recognition stream a second time
C9_EndIsNoOp ==
    [][(phase = "started" /\ ~interview_active /\ (stop \/ end_interview))
       => (UNCHANGED <<orchestrator, sent>> /\ refinished' = refinished)]_vars

\* C10: once interview_active has become false it stays false
C10_InactiveForGood ==
    [][(phase = "started" /\ ~interview_active) => ~interview_active']_vars

\* C10 witness: the session is inactive and an execution created while it was
\* active is still to run
C10_Witness ==
    /\ phase = "started"
    /\ ~interview_active
    /\ tasks # << >>

\* the execution i of _generate_and_send_response is the one the loop starts
\* next and it will pass the single-flight guard, and the step is one of the
\* loop starting an execution
GenStarts(i) ==
    /\ tasks[i].kind = "gen"
    /\ ~response_in_progress
    /\ HasReady(tasks)
    /\ i = FirstReady(tasks)
    /\ UNCHANGED <<phase, endpoint, aside, websocket, interview_active, audio_buffer, start_time, now,
                   ticks, connection, refinished, created>>

\* the step starts that execution, with the language service failing or not
\* (llm) and synthesize raising or not (synth)
GenPasses(i, llm, synth, suspends) ==
    GenStarts(i) /\ generate_and_send_response(i, llm, synth, suspends)

C12_TurnIsAccumulator ==
    [][/\ \A i \in 1..Len(tasks) :
             GenStarts(i)
             => \A llm \in {"ok", "fail"}, synth \in {"ok", "raise"}, suspends \in BOOLEAN :
                   GenPasses(i, llm, synth, suspends)
                   => /\ current_user_speech' = << >>
                      /\ llmCalls' = llmCalls + 1
                      /\ Len(conversation_history') = Len(conversation_history) + 2
                      /\ SubSeq(conversation_history', 1, Len(conversation_history))
                            = conversation_history
                      /\ conversation_history'[Len(conversation_history) + 1]
                            = [role |-> "candidate", text |-> current_user_speech]
       /\ \A t \in Transcripts \ {<< >>} :
             on_transcript_received(t)
             => /\ conversation_history' = conversation_history
                /\ \/ current_user_speech' = current_user_speech \o <<" ">> \o t
                   \/ tasks' = Append(tasks, IntrTask(t))]_vars

\* C12 amended: as C12, the candidate Turn being the accumulator content at entry
\* with its leading and trailing whitespace removed
C12_TurnIsStrippedAccumulator ==
    [][/\ \A i \in 1..Len(tasks) :
             GenStarts(i)
             => \A llm \in {"ok", "fail"}, synth \in {"ok", "raise"}, suspends \in BOOLEAN :
                   GenPasses(i, llm, synth, suspends)
                   => /\ current_user_speech' = << >>
                      /\ llmCalls' = llmCalls + 1
                      /\ Len(conversation_history') = Len(conversation_history) + 2
                      /\ SubSeq(conversation_history', 1, Len(conversation_history))
                            = conversation_history
                      /\ conversation_history'[Len(conversation_history) + 1]
                            = [role |-> "candidate", text |-> Strip(current_user_speech)]
       /\ \A t \in Transcripts \ {<< >>} :
             on_transcript_received(t)
             => /\ conversation_history' = conversation_history
                /\ \/ current_user_speech' = current_user_speech \o <<" ">> \o t
                   \/ tasks' = Append(tasks, IntrTask(t))]_vars

\* C12 witness: the candidate Turn of a generation is in the history and a
\* transcript that arrived after its entry is in the accumulator
C12_Witness ==
    /\ Len(conversation_history) = 3
    /\ conversation_history[2] = [role |-> "candidate", text |-> <<"a">>]
    /\ current_user_speech = <<" ">> \o <<" ", "a">>

\* the process_frame call k of the step just taken invoked the silence callback
Fired(k) ==
    /\ k \in 1..Len(callLog')
    /\ callLog'[k].op = "process_frame"
    /\ callLog'[k].data = <<"_on_silence_detected">>

\* C13: a step in which the detector invokes _on_silence_detected creates one
\* execution of _generate_and_send_response if the trimmed accumulator is
\* non-empty, is_ai_speaking is false and response_in_progress is false, and
\* creates none otherwise; the callback changes no flag, text or history, and no
\* execution is created by a step in which the callback is not invoked
C13_ScheduleIff ==
    [][/\ (\E k \in 1..Len(callLog') : Fired(k))
          => /\ IF Strip(current_user_speech) # << >> /\ ~is_ai_speaking
                   /\ ~response_in_progress
                THEN tasks' = Append(tasks, GenTask(tasks))
                ELSE tasks' = tasks
             /\ UNCHANGED <<interview_active, is_ai_speaking, response_in_progress,
                            current_user_speech, conversation_history>>
       /\ (callLog' # << >> /\ ~\E k \in 1..Len(callLog') : Fired(k))
          => tasks' = tasks]_vars

\* C13 witness: the callback was invoked with a pending utterance while a
\* generation was in flight, and nothing was scheduled
C13_Witness ==
    /\ \E k \in 1..Len(callLog) :
          callLog[k].op = "process_frame" /\ callLog[k].data = <<"_on_silence_detected">>
    /\ Strip(current_user_speech) # << >>
    /\ response_in_progress
    /\ \A i \in 1..Len(tasks) : tasks[i].pc = "sending"

\* C14: when start_interview returns, what it returns is an ai_response payload
\* with the greeting text and the encoded audio of its synthesis, the history is
\* exactly one interviewer Turn with that text, is_ai_speaking and
\* interview_active are true, the timer is started and the recognition stream is
\* open
C14_StartPostcondition ==
    [][(phase # "started" /\ phase' = "started")
       => /\ greeting' = [type |-> "ai_response", text |-> GreetingText,
                          audio |-> encode_audio_to_base64(synthesize(GreetingText))]
          /\ conversation_history' = <<[role |-> "interviewer", text |-> GreetingText]>>
          /\ is_ai_speaking'
          /\ interview_active'
          /\ start_time' # None
          /\ connection' = "live"]_vars

\* C14 witness: start_interview has just returned its greeting
C14_Witness ==
    /\ phase = "started"
    /\ greeting.type = "ai_response"
    /\ sent = [ai_response |-> 1, stop_ai_audio |-> 0, interview_end |-> 0, error |-> 0]
    /\ is_ai_speaking
    /\ interview_active
    /\ created = 0
    /\ callLog = << >>

\* C15: in every step the history before the step is a prefix of the history
\* after it
C15_AppendOnly ==
    [][/\ Len(conversation_history') >= Len(conversation_history)
       /\ SubSeq(conversation_history', 1, Len(conversation_history))
             = conversation_history]_vars

\* C15 witness: two generations have appended their Turns after the greeting
C15_Witness ==
    /\ Len(conversation_history) = 5
    /\ conversation_history[1].role = "interviewer"
    /\ conversation_history[2].role = "candidate"
    /\ conversation_history[5].role = "interviewer"

\* C16: a process_audio_chunk call on a session that is not active forwards
\* nothing to the recognizer, feeds no frame, does not run _end_interview even
\* when the timer has expired, sends no payload and leaves the buffer, the
\* detector, the flags and the background work as they are
C16_InactiveChunkNoOp ==
    [][\A c \in Chunks :
          (~interview_active /\ process_audio_chunk(c))
          => /\ callLog' = << >>
             /\ UNCHANGED <<audio_buffer, vad, sent, orchestrator, connection, refinished,
                            tasks>>]_vars

\* C16 witness: the session was stopped after its timer had expired and before
\* any chunk made _end_interview run, a partial frame waiting in the buffer
C16_Witness ==
    /\ phase = "started"
    /\ ~interview_active
    /\ now - start_time >= duration_seconds
    /\ sent.interview_end = 0
    /\ audio_buffer # << >>

\* C17: a non-empty transcript delivered while is_ai_speaking is false goes to
\* the end of the accumulator, after a space; the step sends no payload, creates
\* no background work and changes neither is_ai_speaking nor the detector
C17_TranscriptAppended ==
    [][\A t \in Transcripts \ {<< >>} :
          (~is_ai_speaking /\ on_transcript_received(t))
          => /\ current_user_speech' = current_user_speech \o <<" ">> \o t
             /\ UNCHANGED <<sent, is_ai_speaking, vad, tasks>>]_vars

\* C17 witness: a transcript was appended to an accumulator that held the
\* transcript of an interruption
C17_Witness ==
    /\ current_user_speech = <<"a">> \o <<" ">> \o <<" ", "a">>
    /\ ~is_ai_speaking
    /\ sent.stop_ai_audio = 1

\* the step just taken left in the buffer what framing the buffer followed by
\* the chunk c leaves, and called process_frame once for every complete frame
Framed(c) ==
    LET cut == CutFrames(audio_buffer \o c)
    IN  /\ audio_buffer' = cut.buf
        /\ Len(callLog') = 1 + Len(cut.frames)
        /\ \A k \in 2..Len(callLog') : callLog'[k].op = "process_frame"

\* C18: the ai_audio_completed message sets is_ai_speaking to false and leaves
\* the accumulator, the history, the detector, the buffer, response_in_progress,
\* interview_active, the background work and the payloads as they are; a chunk
\* processed on an active, unexpired session while is_ai_speaking is false goes
\* through the buffer, every complete frame of which is fed to the detector
\* (by contraposition: a step that did otherwise with c is no
\* process_audio_chunk(c) step)
C18_PlaybackCompleted ==
    [][/\ handle_websocket_message("ai_audio_completed")
          => /\ ~is_ai_speaking'
             /\ UNCHANGED <<current_user_speech, conversation_history, vad, audio_buffer,
                            response_in_progress, interview_active, tasks, sent>>
       /\ \A c \in Chunks :
             (~is_ai_speaking /\ interview_active /\ ~is_expired /\ ~Framed(c))
             => ~process_audio_chunk(c)]_vars

\* C18 witness: the greeting's playback was reported complete (no interruption
\* and no generation has run) and a later chunk had a frame fed to the detector
C18_Witness ==
    /\ ~is_ai_speaking
    /\ sent.stop_ai_audio = 0
    /\ llmCalls = 0
    /\ Len(callLog) >= 2
    /\ callLog[2].op = "process_frame"

\* start_streaming is running
Streaming == phase \in {"connecting", "backoff"}

\* C19: start_streaming makes at most max_reconnect_attempts connection
\* attempts; the sleep after the k-th failed attempt lasts 2^k seconds; an
\* attempt that succeeds ends it without an error, the stream open; after
\* max_reconnect_attempts failed attempts it ends with the error going up to the
\* endpoint; and it always ends
C19_BoundedRetries ==
    /\ [](/\ reconnect_attempts \in 0..max_reconnect_attempts
          /\ phase = "connecting" => (reconnect_attempts < max_reconnect_attempts /\ backoff = 0)
          /\ phase = "backoff" => (reconnect_attempts >= 1 /\ backoff = 2 ^ reconnect_attempts))
    /\ [][/\ (phase = "connecting" /\ phase' # "connecting")
             => \/ phase' = "started" /\ connection' = "live" /\ sent'.error = sent.error
                \/ phase' = "backoff" /\ reconnect_attempts' = reconnect_attempts + 1
          /\ (phase = "backoff" /\ phase' # "backoff")
             => IF reconnect_attempts = max_reconnect_attempts
                THEN phase' = "failed" /\ connection' = "None"
                ELSE phase' = "connecting" /\ reconnect_attempts' = reconnect_attempts]_vars
    /\ Streaming ~> ~Streaming

\* C19 witness: the sleep after the last failed attempt
C19_Witness ==
    /\ phase = "backoff"
    /\ reconnect_attempts = max_reconnect_attempts
    /\ backoff = 32

\* C20: when start_streaming gives up after its last failed attempt, an error
\* payload is sent, interview_active is false afterwards and the session is no
\* longer in the registry
C20_ExhaustionTearsDown ==
    [][(phase = "backoff" /\ reconnect_attempts = max_reconnect_attempts /\ phase' = "failed")
       => /\ sent'.error = sent.error + 1
          /\ ~interview_active'
          /\ SessionId \notin active_conversations']_vars
\* C21: at any time at most one ConversationManager exists for a session id,
\* also when two websocket connections for that session id are open together
C21_OneManagerPerSession ==
    Cardinality({k \in Connections : conns[k].manager}) <= 1

\* the number of entries c that end the trace tr
RECURSIVE TrailingRun(_, _)
TrailingRun(tr, c) ==
    IF tr # << >> /\ tr[Len(tr)] = c
    THEN 1 + TrailingRun(SubSeq(tr, 1, Len(tr) - 1), c)
    ELSE 0

\* the trace tr has n consecutive entries c
HasRun(tr, c, n) == \E k \in n..Len(tr) : \A j \in (k - n + 1)..k : tr[j] = c

\* C22: since construction or the last reset, is_speaking is true exactly when 3
\* consecutive speech-classified frames have been processed (2 speech frames and
\* then a silence frame leave it false), and the count of consecutive speech
\* frames is the number of speech frames since the last silence frame
C22_SpeechHysteresis ==
    /\ vad.is_speaking = HasRun(fed, "speech", speech_padding_frames)
    /\ vad.consecutive_speech = TrailingRun(fed, "speech")

\* C22 witness: two speech frames and a silence frame did not confirm speech,
\* the three speech frames after them did
C22_Witness ==
    /\ fed = <<"speech", "speech", "silence", "speech", "speech", "speech">>
    /\ vad.is_speaking
    /\ ~HasRun(SubSeq(fed, 1, 5), "speech", speech_padding_frames)

\* the step just taken is a process_frame call on a detector driven alone
FrameStep == callLog' # << >> /\ callLog'[1].op = "process_frame" /\ Len(callLog') = 1

\* that call invoked the silence callback
FrameFired == callLog'[1].data = <<"_on_silence_detected">>

\* C23: process_frame invokes the silence callback exactly on a silence frame
\* processed when the time since silence_start is at least the silence threshold
\* (so on the first such frame, and on no frame where it is smaller); the
\* detector is reset right after; and a callback is invoked only if 3
\* consecutive speech frames have been processed since the last reset, hence
\* once per episode and not again before a new episode is confirmed
C23_CallbackAtThreshold ==
    [][FrameStep
       => /\ FrameFired <=> /\ callLog'[1].cls = "silence"
                            /\ vad.silence_start # None
                            /\ now - vad.silence_start >= SILENCE_THRESHOLD_SECONDS
          /\ FrameFired => /\ vad' = reset(vad)
                           /\ fed' = << >>
                           /\ HasRun(fed, "speech", speech_padding_frames)]_vars

\* C23 witness: the callback has just been invoked, one threshold after the
\* silence of a confirmed episode began, and the detector is reset
C23_Witness ==
    /\ callLog # << >>
    /\ callLog[1].op = "process_frame"
    /\ callLog[1].data = <<"_on_silence_detected">>
    /\ now = SILENCE_THRESHOLD_SECONDS
    /\ vad = reset(vad)

\* C24: as long as no 3 consecutive speech-classified frames have been processed
\* since construction or the last reset, silence_start is unset and no
\* process_frame call invokes the silence callback, whatever time has passed
C24_NoPrematureSilence ==
    /\ [](~HasRun(fed, "speech", speech_padding_frames) => vad.silence_start = None)
    /\ [][(FrameStep /\ ~HasRun(fed, "speech", speech_padding_frames))
          => ~FrameFired]_vars

\* C24 witness: two speech frames and then four silence frames, the last of
\* them two thresholds after the first, and silence_start is unset
C24_Witness ==
    /\ fed = <<"speech", "speech", "silence", "silence", "silence", "silence">>
    /\ now = 2 * SILENCE_THRESHOLD_SECONDS
    /\ callLog # << >>
    /\ callLog[1].op = "process_frame"
    /\ callLog[1].data = << >>
    /\ vad.consecutive_silence = 4
    /\ vad.silence_start = None

\* C25: process_frame on a frame whose length is not frame_size returns False,
\* calls neither the classifier nor the silence callback, and leaves every
\* field of the detector as it is
C25_WrongSizeRejected ==
    [][(FrameStep /\ ByteLen(callLog'[1].frame) # frame_size)
       => /\ callLog'[1].result = FALSE
          /\ callLog'[1].cls = "none"
          /\ ~FrameFired
          /\ vad' = vad]_vars

\* C25 witness: a frame and a half was given to a detector whose measured
\* silence had reached the threshold, and the detector still measures it
C25_Witness ==
    /\ callLog # << >>
    /\ callLog[1].op = "process_frame"
    /\ callLog[1].frame = <<0, 0, 0>>
    /\ callLog[1].result = FALSE
    /\ vad.silence_start # None
    /\ now - vad.silence_start >= SILENCE_THRESHOLD_SECONDS

\* the bytes of a sequence of frames, in order
RECURSIVE Flatten(_)
Flatten(fs) == IF fs = << >> THEN << >> ELSE Head(fs) \o Flatten(Tail(fs))

\* C26: the frames fed to the detector so far, in the order they were fed and
\* followed by audio_buffer, are the concatenation of the chunks appended to
\* audio_buffer; each is frame_size bytes long, and fewer than frame_size bytes
\* are left in the buffer after a process_audio_chunk call
C26_FramesAreSlices ==
    /\ Flatten(slices) \o audio_buffer = appended
    /\ \A k \in 1..Len(slices) : ByteLen(slices[k]) = frame_size
    /\ ByteLen(audio_buffer) < frame_size

\* C26 witness: a chunk of a frame and a half and then a chunk of one frame were
\* appended: two frames were fed, the second across the chunks, and half a
\* frame is left
C26_Witness ==
    /\ appended = <<1, 2, 3, 4, 5>>
    /\ slices = <<(<<1, 2>>), (<<3, 4>>)>>
    /\ audio_buffer = <<5>>
    /\ Len(callLog) = 2
    /\ callLog[2].op = "process_frame"

\* C27: a process_frame call sets silence_start exactly when it processes the
\* 3rd consecutive silence-classified frame after speech was confirmed while
\* silence_start is unset; it sets it to the time of that frame, with
\* speech_detected true; and a silence frame processed while silence_start is set
\* leaves it as it is, unless the callback is invoked and the detector reset
C27_SilenceStartOnce ==
    [][FrameStep
       => /\ (vad.silence_start = None /\ vad'.silence_start # None)
                <=> /\ callLog'[1].cls = "silence"
                    /\ HasRun(fed, "speech", speech_padding_frames)
                    /\ TrailingRun(fed, "silence") = silence_padding_frames - 1
                    /\ vad.silence_start = None
          /\ (vad.silence_start = None /\ vad'.silence_start # None)
                => (vad'.silence_start = now /\ vad'.speech_detected)
          /\ (vad.silence_start # None /\ callLog'[1].cls = "silence" /\ ~FrameFired)
                => vad'.silence_start = vad.silence_start]_vars

\* C27 witness: silence_start was set by the 3rd silence frame after confirmed
\* speech, one threshold after the 2nd, and a single speech frame and three more
\* silence frames have been processed since
C27_Witness ==
    /\ fed = <<"speech", "speech", "speech", "silence", "silence", "silence",
               "speech", "silence", "silence", "silence">>
    /\ now = SILENCE_THRESHOLD_SECONDS
    /\ vad.silence_start = now
    /\ vad.consecutive_silence = silence_padding_frames

\* C28: a speech-classified frame processed while silence_start is set leaves
\* silence_start as it is if it is the 1st or the 2nd of its run, and clears it
\* if it is the 3rd consecutive one
C28_FlickerKeepsSilenceStart ==
    [][(FrameStep /\ callLog'[1].cls = "speech" /\ vad.silence_start # None)
       => IF TrailingRun(fed, "speech") + 1 >= speech_padding_frames
          THEN vad'.silence_start = None
          ELSE vad'.silence_start = vad.silence_start]_vars

\* C28 witness: the silence of a confirmed episode was being measured through
\* two speech frames and the third of them cleared silence_start
C28_Witness ==
    /\ fed = <<"speech", "speech", "speech", "silence", "silence", "silence",
               "speech", "speech", "speech">>
    /\ vad.silence_start = None
    /\ vad.speech_detected

\* C29: when the classifier raises on a frame of frame_size bytes, process_frame
\* returns False and the detector is left in the state a silence result for that
\* frame would have produced
C29_FailureIsSilence ==
    [][(FrameStep /\ callLog'[1].cls = "raise")
       => /\ callLog'[1].result = FALSE
          /\ vad' = process_frame(vad, callLog'[1].frame, "silence", now).vad
          /\ FrameFired = process_frame(vad, callLog'[1].frame, "silence", now).fired]_vars

\* the step just taken is a reset() call on a detector driven alone
ResetStep == callLog' # << >> /\ callLog'[1].op = "reset"

\* C30: reset() puts the detector in its initial state whatever state it is in
\* (both consecutive counters 0, is_speaking false, speech_detected false,
\* silence_start unset), leaves frame_size, the thresholds and the registered
\* callback as they are, and a second reset() changes nothing
C30_ResetToInitial ==
    [][ResetStep
       => /\ vad'.consecutive_silence = 0
          /\ vad'.consecutive_speech = 0
          /\ ~vad'.is_speaking
          /\ ~vad'.speech_detected
          /\ vad'.silence_start = None
          /\ vad'.frame_size = vad.frame_size
          /\ vad'.sample_rate = vad.sample_rate
          /\ vad'.frame_duration_ms = vad.frame_duration_ms
          /\ vad'.silence_threshold_seconds = vad.silence_threshold_seconds
          /\ vad'.silence_padding_frames = vad.silence_padding_frames
          /\ vad'.speech_padding_frames = vad.speech_padding_frames
          /\ vad'.on_silence_detected = vad.on_silence_detected
          /\ vad' = VoiceActivityDetector
          /\ reset(vad') = vad']_vars

\* C30 witness: reset() was called on a detector that had confirmed speech and
\* was measuring the silence after it
C30_Witness ==
    /\ callLog = <<[op |-> "reset",
                    data |-> <<"speech", "speech", "speech", "silence", "silence", "silence">>]>>
    /\ vad = VoiceActivityDetector
    /\ fed = << >>

\* C31 as stated: is_expired() is false before start() and afterwards true
\* exactly when the elapsed time exceeds the duration; remaining_seconds() is
\* never negative, is the full duration before start() and 0 when is_expired()
C31_ExpiredWhenExceeded ==
    /\ start_time = None => (~is_expired /\ remaining_seconds = duration_seconds)
    /\ start_time # None => (is_expired <=> now - start_time > duration_seconds)
    /\ remaining_seconds >= 0
    /\ is_expired => remaining_seconds = 0

\* C31 amended: is_expired() is false before start() and afterwards true exactly
\* when the elapsed time is at least the duration; remaining_seconds() is never
\* negative, is the full duration before start() and 0 when is_expired()
C31_ExpiredWhenReached ==
    /\ start_time = None => (~is_expired /\ remaining_seconds = duration_seconds)
    /\ start_time # None => (is_expired <=> now - start_time >= duration_seconds)
    /\ remaining_seconds >= 0
    /\ is_expired => remaining_seconds = 0

\* C31 witness: the timer was started and the elapsed time is the duration, to
\* the second
C31_Witness ==
    /\ start_time # None
    /\ now - start_time = duration_seconds
    /\ is_expired
    /\ remaining_seconds = 0

\* the number of letters in a text (the characters that are not spaces): every
\* non-empty transcript of Transcripts has one
RECURSIVE Letters(_)
Letters(text) ==
    IF text = << >> THEN 0
    ELSE (IF Head(text) = " " THEN 0 ELSE 1) + Letters(Tail(text))

\* the letters of the candidate Turns of a history
RECURSIVE TurnLetters(_)
TurnLetters(h) ==
    IF h = << >> THEN 0
    ELSE (IF Head(h).role = "candidate" THEN Letters(Head(h).text) ELSE 0)
         + TurnLetters(Tail(h))

\* the letters of the transcripts that interruption handlers not yet completed
\* were created with
RECURSIVE PendingLetters(_)
PendingLetters(q) ==
    IF q = << >> THEN 0
    ELSE (IF Head(q).kind = "intr" THEN Letters(Head(q).arg) ELSE 0)
         + PendingLetters(Tail(q))

\* C32: a transcript delivered to _on_transcript_received is preserved: a step
\* after which no background execution is pending leaves in the accumulator and
\* in the candidate Turns at least the transcript text that the accumulator,
\* the candidate Turns and the pending interruption handlers held before it
C32_TranscriptsPreserved ==
    [][tasks' = << >>
       => Letters(current_user_speech') + TurnLetters(conversation_history')
            >= Letters(current_user_speech) + TurnLetters(conversation_history)
               + PendingLetters(tasks)]_vars

\* a response is owed: the session is active, the accumulator holds text, the
\* interviewer is not speaking and no generation is in flight
Owed ==
    /\ phase = "started"
    /\ interview_active
    /\ Strip(current_user_speech) # << >>
    /\ ~is_ai_speaking
    /\ ~response_in_progress

\* the bounds leave room for one more execution and one more clock advance
Room == created < MaxTasks /\ ticks < MaxTicks

\* an execution of _generate_and_send_response is scheduled
Scheduled == \E i \in 1..Len(tasks) : tasks[i].kind = "gen"

\* the frame the detector counted last was a speech frame
Heard == vad.consecutive_speech > 0

\* C33: whenever a response is owed, a response generation is eventually
\* scheduled if the candidate stays silent from then on, whatever the detector
\* had done before the transcript arrived
C33_OwedResponseScheduled == (Owed /\ Room) ~> (Scheduled \/ Heard \/ ~Room)

\* C34: when an execution of _generate_and_send_response that passed the guard
\* ends without having sent an ai_response payload although a websocket is
\* there (a collaborator failed), is_ai_speaking is false, so that the next
\* chunks reach the detector
C34_FailureBackToListening ==
    [][(websocket # "None" /\ llmCalls' = llmCalls + 1
        /\ sent'.ai_response = sent.ai_response)
       => ~is_ai_speaking']_vars

\* C35: no candidate Turn with an empty text is ever appended: every execution
\* of _generate_and_send_response that passes the guard captures a non-empty
\* accumulator, however the scheduled executions interleave
C35_NoEmptyCandidateTurn ==
    \A k \in 1..Len(conversation_history) :
        conversation_history[k].role = "candidate" => conversation_history[k].text # << >>

\* C36: is_ai_speaking is true when the ai_response payload of a generated
\* reply is sent: no interruption handler and no playback-completed signal runs
\* between the entry of the execution and its send
C36_SpeakingWhenReplySent ==
    [][(llmCalls' = llmCalls + 1 /\ sent'.ai_response = sent.ai_response + 1)
       => is_ai_speaking']_vars

\* C36 witness: a reply is being delivered with is_ai_speaking set while an
\* interruption handler that cleared the flag before the execution started is
\* still suspended in its own send
C36_Witness ==
    /\ is_ai_speaking
    /\ llmCalls >= 1
    /\ InFlight # {}
    /\ \E i \in 1..Len(tasks) : tasks[i].kind = "intr" /\ tasks[i].pc = "sending"

====
